---- MODULE Spec2Model ----
(***************************************************************************)
(* Translation request orchestration of src/api.py: language resolution,   *)
(* text filtering, chunked batching with per-chunk fallback, reassembly    *)
(* and the /translate endpoint's response.                                 *)
(*                                                                         *)
(* A string is a run-length encoded sequence of character runs             *)
(* <<class, count>>, count >= 1, adjacent runs of different classes.       *)
(* Classes "ws", "digit" and "punct" are not alphabetic; every other class *)
(* ("alpha" for Latin letters, a language tag for letters of that target   *)
(* script) is alphabetic.  <<>> is the empty string.                       *)
(***************************************************************************)
EXTENDS Integers, Sequences, FiniteSets, TLC

\* ---------------------------------------------------------------- bounds
\* longest request whose texts are drawn freely from Pool
MaxShort == 2
\* requests of up to MaxChunks * MODEL_BATCH_SIZE + 1 texts
MaxChunks == 2

\* ------------------------------------------------------ program constants
MODEL_BATCH_SIZE == 24
\* the length cap of the filter, len(text) <= 1000
MaxTextLength == 1000
\* signal.alarm(30)
GPU_TIMEOUT == 30

None == "<None>"

valid_target_langs ==
    { "hin_Deva", "mar_Deva", "tam_Taml", "tel_Telu", "guj_Gujr", "kan_Knda",
      "ben_Beng", "asm_Beng", "brx_Deva", "doi_Deva", "eng_Latn", "gom_Deva",
      "kas_Arab", "kas_Deva", "mai_Deva", "mal_Mlym", "mni_Beng", "mni_Mtei",
      "nep_Deva", "npi_Deva", "ory_Orya", "pan_Guru", "san_Deva", "sat_Olck",
      "snd_Arab", "snd_Deva", "urd_Arab" }

\* a short-code table with one mistyped tag
tgt_lang_map_typo ==
    ("hi" :> "hin_Deva") @@ ("ks" :> "kas_Arabic") @@ ("en" :> "eng_Latn")

tgt_lang_map ==
    ("hi" :> "hin_Deva") @@ ("mr" :> "mar_Deva") @@ ("ta" :> "tam_Taml") @@
    ("te" :> "tel_Telu") @@ ("gu" :> "guj_Gujr") @@ ("kn" :> "kan_Knda") @@
    ("ben" :> "ben_Beng") @@ ("bn" :> "ben_Beng") @@ ("asm" :> "asm_Beng") @@
    ("brx" :> "brx_Deva") @@ ("doi" :> "doi_Deva") @@ ("eng" :> "eng_Latn") @@
    ("gom" :> "gom_Deva") @@ ("kas" :> "kas_Arab") @@
    ("kas_Deva" :> "kas_Deva") @@ ("mai" :> "mai_Deva") @@
    ("mal" :> "mal_Mlym") @@ ("mni" :> "mni_Beng") @@
    ("mni_Mtei" :> "mni_Mtei") @@ ("nep" :> "nep_Deva") @@
    ("npi" :> "npi_Deva") @@ ("ory" :> "ory_Orya") @@ ("pan" :> "pan_Guru") @@
    ("san" :> "san_Deva") @@ ("sat" :> "sat_Olck") @@ ("snd" :> "snd_Arab") @@
    ("snd_Deva" :> "snd_Deva") @@ ("tel" :> "tel_Telu") @@
    ("urd" :> "urd_Arab") @@ ("as" :> "asm_Beng") @@ ("en" :> "eng_Latn") @@
    ("ks" :> "kas_Arab") @@ ("ml" :> "mal_Mlym") @@ ("ne" :> "nep_Deva") @@
    ("or" :> "ory_Orya") @@ ("pa" :> "pan_Guru") @@ ("sa" :> "san_Deva") @@
    ("sd" :> "snd_Arab") @@ ("ur" :> "urd_Arab")

\* ----------------------------------------------------------------- strings
Min(a, b) == IF a < b THEN a ELSE b

\* c.isalpha()
IsAlphaClass(c) == c \notin {"ws", "digit", "punct"}

\* len(text)
RECURSIVE StrLen(_)
StrLen(s) == IF s = <<>> THEN 0 ELSE Head(s)[2] + StrLen(Tail(s))

RECURSIVE LStrip(_)
LStrip(s) == IF s # <<>> /\ Head(s)[1] = "ws" THEN LStrip(Tail(s)) ELSE s

RECURSIVE RStrip(_)
RStrip(s) ==
    IF s # <<>> /\ s[Len(s)][1] = "ws"
    THEN RStrip(SubSeq(s, 1, Len(s) - 1))
    ELSE s

\* text.strip()
Strip(s) == RStrip(LStrip(s))

\* any(c.isalpha() for c in text)
HasAlpha(s) == \E k \in 1..Len(s) : IsAlphaClass(s[k][1])

\* the filter of the diagnostic endpoint: no all-digit text, at most 200
IsTranslatableDebug(text) ==
    /\ StrLen(text) >= 1
    /\ HasAlpha(text)
    /\ ~ (\A k \in 1..Len(text) : text[k][1] = "digit")
    /\ StrLen(text) <= 200

\* the condition of the filter, applied to the stripped text
IsTranslatable(text) ==
    /\ StrLen(text) > 0
    /\ HasAlpha(text)
    /\ StrLen(text) <= MaxTextLength

\* ------------------------------------------------------ language resolver
\* an unknown identifier silently defaults to Hindi
ResolveDefaultHindi(target_language) ==
    IF target_language \in valid_target_langs
    THEN target_language
    ELSE IF target_language \in DOMAIN tgt_lang_map
         THEN tgt_lang_map[target_language]
         ELSE "hin_Deva"

\* tgt_lang as computed from target_language; dict.get gives None
Resolve(target_language) ==
    IF target_language \in valid_target_langs
    THEN target_language
    ELSE IF target_language \in DOMAIN tgt_lang_map
         THEN tgt_lang_map[target_language]
         ELSE None

\* not tgt_lang
Falsy(tag) == tag \in {None, ""}

\* ------------------------------------------------------------- the engine
\* The engine's translation of one text: every Latin letter becomes a
\* letter of the target script, everything else is kept.
Translate(text, tgt) ==
    [k \in 1..Len(text) |->
        IF text[k][1] = "alpha" THEN <<tgt, text[k][2]>> ELSE text[k]]

Junk == << <<"punct", 7>> >>

\* what one invocation of the engine can do with a chunk
EngineOutcomes == {"ok", "short", "empty", "long", "raise", "timeout", "escape"}

\* What the engine would do with a chunk if nothing interrupted it: come
\* back after `need` seconds with `outcome`, or never come back.
EngineBehaviours ==
    { [returns |-> TRUE, need |-> 1, outcome |-> o] :
          o \in {"ok", "short", "empty", "long", "raise"} }
      \cup { [returns |-> TRUE, need |-> n, outcome |-> "ok"] :
                n \in {GPU_TIMEOUT - 1, GPU_TIMEOUT + 1} }
      \cup { [returns |-> TRUE, need |-> n, outcome |-> "raise"] :
                n \in {GPU_TIMEOUT, GPU_TIMEOUT + 1} }
      \cup { [returns |-> FALSE, need |-> 0, outcome |-> "ok"] }

\* the call is still running when `seconds` have passed
StillRunningAt(b, seconds) == ~ b.returns \/ b.need >= seconds

\* an alarm that is set for the first chunk of a request only
ArmAlarmOnce(system, off) ==
    IF system # "Windows" /\ off = 0 THEN GPU_TIMEOUT ELSE 0

\* lines 163-172: signal.alarm(30) unless on Windows; 0 is "no alarm"
ArmAlarm(system, off) == IF system # "Windows" THEN GPU_TIMEOUT ELSE 0

\* How a call with behaviour b ends when the alarm was set to `armed`
\* seconds.  SIGALRM raises TimeoutError in a call that is still running;
\* when the engine raises just as the alarm is due, the signal can also
\* arrive inside the except clause, and the TimeoutError then leaves
\* _translate_batch_on_gpu ("escape").  Without an alarm a call that never
\* comes back has no outcome at all.
CallOutcomes(b, armed) ==
    IF armed > 0 /\ StillRunningAt(b, armed)
    THEN {"timeout"} \cup (IF b.returns /\ b.need = armed /\ b.outcome = "raise"
                           THEN {"escape"} ELSE {})
    ELSE IF b.returns THEN {b.outcome} ELSE {}

\* outcomes in which the pre/post-processing returns a list of results
Returns(outcome) == outcome \in {"ok", "short", "empty", "long"}

\* the list handed back by ip.postprocess_batch
EngineResults(batch_texts, tgt, outcome) ==
    LET full == [j \in 1..Len(batch_texts) |-> Translate(batch_texts[j], tgt)]
    IN  CASE outcome = "ok"    -> full
          [] outcome = "short" -> SubSeq(full, 1, Len(full) - 1)
          [] outcome = "empty" -> <<>>
          [] outcome = "long"  -> Append(full, Junk)
          [] OTHER             -> <<>>

\* padding without the final cut to the chunk's length
RECURSIVE RepairLengthNoCut(_, _)
RepairLengthNoCut(results, batch_texts) ==
    IF Len(results) < Len(batch_texts)
    THEN RepairLengthNoCut(Append(results, batch_texts[Len(results) + 1]),
                           batch_texts)
    ELSE results

\* padding that restarts at the first text of the chunk
RECURSIVE RepairLengthFromStart(_, _)
RepairLengthFromStart(results, batch_texts) ==
    IF Len(results) < Len(batch_texts)
    THEN RepairLengthFromStart(
             Append(results, batch_texts[Len(batch_texts) - Len(results)]),
             batch_texts)
    ELSE SubSeq(results, 1, Len(batch_texts))

\* the texts that the loop
\*   while len(results) < len(batch_texts): results.append(batch_texts[len(results)])
\* appends when it starts with len(results) = n
RECURSIVE PadFrom(_, _)
PadFrom(batch_texts, n) ==
    IF n < Len(batch_texts)
    THEN <<batch_texts[n + 1]>> \o PadFrom(batch_texts, n + 1)
    ELSE <<>>

\* the padding loop, then results[:len(batch_texts)]
RepairLength(results, batch_texts) ==
    SubSeq(results \o PadFrom(batch_texts, Len(results)), 1, Len(batch_texts))

\* a fallback that returns nothing for the chunk
ChunkFallbackDrop(batch_texts) == <<>>

\* return batch_texts, in both except clauses
ChunkFallback(batch_texts) == batch_texts

translate_batch_on_gpu(batch_texts, tgt, outcome) ==
    IF Len(batch_texts) = 0
    THEN <<>>
    ELSE IF Returns(outcome)
         THEN RepairLength(EngineResults(batch_texts, tgt, outcome), batch_texts)
         ELSE ChunkFallback(batch_texts)

\* --------------------------------------------------------------- pipeline
\* the filtering loop: [filtered_texts, text_indices], indices 0-based
RECURSIVE FilterLoop(_, _, _, _)
FilterLoop(ts, k, ft, ti) ==
    IF k > Len(ts)
    THEN [filtered_texts |-> ft, text_indices |-> ti]
    ELSE LET text == Strip(ts[k])
         IN  IF IsTranslatable(text)
             THEN FilterLoop(ts, k + 1, Append(ft, text), Append(ti, k - 1))
             ELSE FilterLoop(ts, k + 1, ft, ti)

\* filtered_texts[i:i + batch_size]
SubBatch(ft, off) == SubSeq(ft, off + 1, Min(off + MODEL_BATCH_SIZE, Len(ft)))

\* a range step that is one short
NextOffsetShort(off) == off + MODEL_BATCH_SIZE - 1

\* range(0, len(filtered_texts), batch_size)
NextOffset(off) == off + MODEL_BATCH_SIZE

\* the scatter loop over zip(text_indices, all_translations)
RECURSIVE Scatter(_, _, _, _)
Scatter(final, ti, all, k) ==
    IF k > Min(Len(ti), Len(all))
    THEN final
    ELSE Scatter([final EXCEPT ![ti[k] + 1] = all[k]], ti, all, k + 1)

\* the result list starts from the stripped texts
ReconstructStripped(ts, ti, all) ==
    Scatter([k \in 1..Len(ts) |-> Strip(ts[k])], ti, all, 1)

\* the translations are returned without the skipped items
ReconstructTranslationsOnly(ts, ti, all) == all

\* final_results = texts_to_translate.copy(), then the scatter loop
Reconstruct(ts, ti, all) == Scatter(ts, ti, all, 1)

\* an outer handler that lets the exception through to the caller
PipelineFailureReraise(ts) == [raised |-> TRUE, value |-> <<>>]

\* except Exception of translate_texts_with_model: return texts_to_translate
PipelineFailure(ts) == [raised |-> FALSE, value |-> ts]

\* --------------------------------------------------------------- endpoint
\* the body of translate_texts after the pipeline call: validation, length
\* repair and the response; an exception gives the response with "error"
translate_texts(request_texts, result) ==
    IF result.raised
    THEN [translations |-> request_texts, error |-> TRUE, status |-> 200]
    ELSE LET br == result.value
             fixed ==
                IF Len(br) # Len(request_texts)
                THEN IF Len(br) < Len(request_texts)
                     THEN br \o SubSeq(request_texts, Len(br) + 1,
                                       Len(request_texts))
                     ELSE SubSeq(br, 1, Len(request_texts))
                ELSE br
         IN  [translations |-> fixed, error |-> FALSE, status |-> 200]

NoResponse == [translations |-> <<>>, error |-> FALSE, status |-> 0]

\* ------------------------------------------------------------------ state
VARIABLES
    texts,             \* request.texts
    target_language,   \* request.target_language
    pc,                \* Received, Resolved, Filtered, Translating, Batched,
                       \* Assembled, Responded
    tgt_lang,          \* the resolved tag, None before resolution
    filtered_texts,    \* the stripped translatable texts
    text_indices,      \* their 0-based indices in texts
    i,                 \* offset of the next chunk
    all_translations,  \* concatenated chunk outputs
    calls,             \* engine invocations so far
    batch_results,     \* return value of translate_texts_with_model
    response,          \* the body returned by the endpoint
    fault,             \* "none", or where an unexpected exception was raised
    system,            \* platform.system()
    alarm,             \* seconds the pending SIGALRM was set to, 0 if none
    engine             \* behaviour of the engine call in progress

vars == <<texts, target_language, pc, tgt_lang, filtered_texts, text_indices,
          i, all_translations, calls, batch_results, response, fault,
          system, alarm, engine>>

\* ----------------------------------------------------------------- inputs
Word(n) == << <<"alpha", n>> >>

\* "12345", " 1", " ab ", and the texts around the length cap
Digits == << <<"digit", 5>> >>
PaddedDigit == << <<"ws", 1>>, <<"digit", 1>> >>
PaddedWord == << <<"ws", 1>>, <<"alpha", 2>>, <<"ws", 1>> >>
PaddedLongest == << <<"ws", 1>>, <<"alpha", MaxTextLength>>, <<"ws", 2>> >>

Pool ==
    { <<>>,
      << <<"ws", 1>> >>,
      Digits,
      << <<"punct", 3>> >>,
      PaddedDigit,
      Word(1),
      PaddedWord,
      << <<"digit", 1>>, <<"alpha", 1>> >>,
      Word(MaxTextLength),
      Word(MaxTextLength + 1),
      PaddedLongest,
      << <<"digit", MaxTextLength>>, <<"alpha", 1>> >> }

\* the items placed into a long list of distinct words
Specials == { PaddedDigit, PaddedWord, Word(MaxTextLength + 1) }

RECURSIVE SeqsUpTo(_, _)
SeqsUpTo(S, n) ==
    IF n = 0
    THEN { <<>> }
    ELSE LET shorter == SeqsUpTo(S, n - 1)
         IN  shorter \cup { Append(s, x) : s \in shorter, x \in S }

ShortLists == SeqsUpTo(Pool, MaxShort)

\* n distinct words, with the special text sp at position p
LongList(n, p, sp) == [k \in 1..n |-> IF k = p THEN sp ELSE Word(k)]

LongLens ==
    UNION { {c * MODEL_BATCH_SIZE, c * MODEL_BATCH_SIZE + 1} : c \in 1..MaxChunks }

LongLists ==
    { LongList(n, p, sp) : n \in LongLens, p \in {1, MODEL_BATCH_SIZE + 1},
                           sp \in Specials }

TargetInputs == {"hin_Deva", "ks", "xx"}

LanguageInputs ==
    valid_target_langs \cup DOMAIN tgt_lang_map
        \cup {"xx", "", "hin", "HI", "hin_deva", "fr", "kas_Arabic"}

Systems == {"Linux", "Windows"}

\* no engine call in progress
Idle == [returns |-> TRUE, need |-> 0, outcome |-> "idle"]

Start ==
    /\ pc = "Received"
    /\ tgt_lang = None
    /\ filtered_texts = <<>>
    /\ text_indices = <<>>
    /\ i = 0
    /\ all_translations = <<>>
    /\ calls = <<>>
    /\ batch_results = <<>>
    /\ response = NoResponse
    /\ fault = "none"
    /\ alarm = 0
    /\ engine = Idle

Init ==
    /\ texts \in ShortLists \cup LongLists
    /\ target_language \in TargetInputs
    /\ system \in Systems
    /\ Start

InitLang ==
    /\ texts \in { <<>>, <<Digits>>, <<PaddedWord, Digits>> }
    /\ target_language \in LanguageInputs
    /\ system \in Systems
    /\ Start

InitTimeout ==
    /\ texts \in { <<>>, <<Digits>>, <<PaddedWord, Digits>> }
                   \cup { LongList(n, MODEL_BATCH_SIZE + 1, PaddedWord) :
                             n \in LongLens }
    /\ target_language \in {"hin_Deva", "xx"}
    /\ system \in Systems
    /\ Start

\* ---------------------------------------------------------------- actions
\* lines 288-321: resolution; an unknown language returns the texts at once
ResolveLanguage ==
    /\ pc = "Received"
    /\ tgt_lang' = Resolve(target_language)
    /\ IF Falsy(tgt_lang')
       THEN /\ batch_results' = texts
            /\ response' = translate_texts(texts, [raised |-> FALSE, value |-> texts])
            /\ pc' = "Responded"
       ELSE /\ pc' = "Resolved"
            /\ UNCHANGED <<batch_results, response>>
    /\ UNCHANGED <<texts, target_language, filtered_texts, text_indices, i,
                   all_translations, calls, fault, system, alarm, engine>>

\* lines 325-345: the filter; with nothing to translate the originals are
\* returned at once
FilterTexts ==
    /\ pc = "Resolved"
    /\ LET f == FilterLoop(texts, 1, <<>>, <<>>)
       IN  /\ filtered_texts' = f.filtered_texts
           /\ text_indices' = f.text_indices
           /\ IF f.filtered_texts = <<>>
              THEN /\ batch_results' = texts
                   /\ response' = translate_texts(texts,
                                      [raised |-> FALSE, value |-> texts])
                   /\ pc' = "Responded"
              ELSE /\ pc' = "Filtered"
                   /\ UNCHANGED <<batch_results, response>>
    /\ UNCHANGED <<texts, target_language, tgt_lang, i, all_translations,
                   calls, fault, system, alarm, engine>>

\* an unexpected exception while filtering, caught at lines 370-372
FilterFailure ==
    /\ pc = "Resolved"
    /\ fault' = "filter"
    /\ LET r == PipelineFailure(texts)
       IN  /\ batch_results' = r.value
           /\ response' = translate_texts(texts, r)
    /\ pc' = "Responded"
    /\ UNCHANGED <<texts, target_language, tgt_lang, filtered_texts,
                   text_indices, i, all_translations, calls, system, alarm,
                   engine>>

\* lines 351-356 and 159-172: the loop takes the next chunk and calls
\* _translate_batch_on_gpu, which sets the alarm and starts the engine
StartChunk ==
    /\ pc = "Filtered"
    /\ i < Len(filtered_texts)
    /\ alarm' = ArmAlarm(system, i)
    /\ engine' \in EngineBehaviours
    /\ pc' = "Translating"
    /\ UNCHANGED <<texts, target_language, tgt_lang, filtered_texts,
                   text_indices, i, all_translations, calls, batch_results,
                   response, fault, system>>

\* lines 174-268 and 357-361: the call ends, by a result, an exception or
\* the alarm; every exit cancels the alarm (signal.alarm(0)) and the chunk
\* output is appended.  With "escape" the exception is caught at line 358.
TranslateChunk ==
    /\ pc = "Translating"
    /\ \E outcome \in CallOutcomes(engine, alarm) :
         LET sub_batch == SubBatch(filtered_texts, i)
             translations_chunk ==
                IF outcome = "escape"
                THEN sub_batch
                ELSE translate_batch_on_gpu(sub_batch, tgt_lang, outcome)
         IN  /\ all_translations' = all_translations \o translations_chunk
             /\ calls' = Append(calls,
                    [input |-> sub_batch, tgt |-> tgt_lang, outcome |-> outcome,
                     results |-> EngineResults(sub_batch, tgt_lang, outcome),
                     armed |-> alarm,
                     exceeded |-> StillRunningAt(engine, GPU_TIMEOUT)])
    /\ alarm' = 0
    /\ engine' = Idle
    /\ i' = NextOffset(i)
    /\ pc' = IF i' < Len(filtered_texts) THEN "Filtered" ELSE "Batched"
    /\ UNCHANGED <<texts, target_language, tgt_lang, filtered_texts,
                   text_indices, batch_results, response, fault, system>>

\* lines 363-368: reassembly and return
Assemble ==
    /\ pc = "Batched"
    /\ batch_results' = Reconstruct(texts, text_indices, all_translations)
    /\ pc' = "Assembled"
    /\ UNCHANGED <<texts, target_language, tgt_lang, filtered_texts,
                   text_indices, i, all_translations, calls, response, fault,
                   system, alarm, engine>>

\* lines 397-424: validation and response
Respond ==
    /\ pc = "Assembled"
    /\ response' = translate_texts(texts, [raised |-> FALSE, value |-> batch_results])
    /\ pc' = "Responded"
    /\ UNCHANGED <<texts, target_language, tgt_lang, filtered_texts,
                   text_indices, i, all_translations, calls, batch_results,
                   fault, system, alarm, engine>>

Next ==
    \/ ResolveLanguage
    \/ FilterTexts
    \/ FilterFailure
    \/ StartChunk
    \/ TranslateChunk
    \/ Assemble
    \/ Respond

Spec == Init /\ [][Next]_vars

SpecLang == InitLang /\ [][Next]_vars

\* One request is handled by one sequential task: a step that can be taken
\* is taken.
SpecTimeout == InitTimeout /\ [][Next]_vars /\ WF_vars(Next)

TypeOK ==
    /\ pc \in {"Received", "Resolved", "Filtered", "Translating", "Batched",
               "Assembled", "Responded"}
    /\ fault \in {"none", "filter"}
    /\ alarm \in {0, GPU_TIMEOUT}
    /\ pc # "Translating" => alarm = 0 /\ engine = Idle
    /\ Len(filtered_texts) = Len(text_indices)

\* ------------------------------------------------- the claims' vocabulary
\* number of whitespace characters at the start and at the end of a string
LeadingWs(s) == IF s # <<>> /\ s[1][1] = "ws" THEN s[1][2] ELSE 0

TrailingWs(s) == IF Len(s) > 1 /\ s[Len(s)][1] = "ws" THEN s[Len(s)][2] ELSE 0

TrimmedLen(s) == StrLen(s) - LeadingWs(s) - TrailingWs(s)

Letters(s) == { k \in 1..Len(s) : s[k][1] \notin {"ws", "digit", "punct"} }

\* the policy of the text filter as the specification words it
ClaimTranslatable(t) ==
    /\ TrimmedLen(t) > 0
    /\ TrimmedLen(t) <= 1000
    /\ Letters(t) # {}

ClaimPassthrough(t) ==
    \/ TrimmedLen(t) = 0
    \/ TrimmedLen(t) > 1000
    \/ Letters(t) = {}

\* 1-based positions of the translatable texts, in request order
RECURSIVE ClaimIndices(_, _)
ClaimIndices(ts, k) ==
    IF k > Len(ts)
    THEN <<>>
    ELSE (IF ClaimTranslatable(ts[k]) THEN <<k>> ELSE <<>>)
             \o ClaimIndices(ts, k + 1)

CeilDiv(n, b) == (n + b - 1) \div b

Failed(call) == call.outcome \in {"raise", "timeout", "escape"}

\* what chunk `call` contributes at its position j: the entry the engine
\* returned there, else the chunk's own input text
ExpectedAt(call, j) ==
    IF ~ Failed(call) /\ j <= Len(call.results)
    THEN call.results[j]
    ELSE call.input[j]

ChunkOf(k) == ((k - 1) \div MODEL_BATCH_SIZE) + 1

PosInChunk(k) == ((k - 1) % MODEL_BATCH_SIZE) + 1

\* the pipeline ran to its end: resolved, filtered, batched, reassembled
Completed == pc \in {"Assembled", "Responded"} /\ calls # <<>>

Unresolved ==
    /\ target_language \notin valid_target_langs
    /\ target_language \notin DOMAIN tgt_lang_map

\* ------------------------------------------------------------------ claims
\* C1: the list returned by the pipeline and the translations of the
\* response both have exactly the length of request.texts, whatever the
\* language, the texts and the outcome of each chunk.
C1_LengthInvariant ==
    /\ pc \in {"Assembled", "Responded"} => Len(batch_results) = Len(texts)
    /\ pc = "Responded" => Len(response.translations) = Len(texts)

C1_Witness ==
    /\ pc = "Responded"
    /\ Len(text_indices) < Len(texts)
    /\ \E c \in 1..Len(calls) : calls[c].outcome = "long"
    /\ \E c \in 1..Len(calls) : calls[c].outcome = "raise"

\* C2: every text classified Passthrough is returned at its own index as
\* the original, untrimmed text.
C2_PassthroughUnchanged ==
    pc = "Responded" =>
        \A k \in 1..Len(texts) :
            ClaimPassthrough(texts[k]) =>
                /\ k \in DOMAIN response.translations
                /\ response.translations[k] = texts[k]

C2_Witness ==
    /\ pc = "Responded"
    /\ \E k \in 1..Len(texts) :
          ClaimPassthrough(texts[k]) /\ LeadingWs(texts[k]) > 0
    /\ \E c \in 1..Len(calls) : calls[c].outcome = "ok"
    /\ \E c \in 1..Len(calls) : calls[c].outcome = "timeout"

\* C3: the k-th translatable text of the request has its own index
\* overwritten with the k-th entry of the concatenated chunk outputs, which
\* is the output produced for that text; nothing is dropped or shifted.
C3_Alignment ==
    Completed =>
        LET idx == ClaimIndices(texts, 1)
        IN  /\ Len(all_translations) = Len(idx)
            /\ \A k \in 1..Len(idx) :
                 LET call == calls[ChunkOf(k)]
                     j == PosInChunk(k)
                 IN  /\ ChunkOf(k) \in DOMAIN calls
                     /\ j \in DOMAIN call.input
                     /\ call.input[j] = Strip(texts[idx[k]])
                     /\ all_translations[k] = ExpectedAt(call, j)
                     /\ batch_results[idx[k]] = all_translations[k]
                     /\ pc = "Responded" =>
                            response.translations[idx[k]] = all_translations[k]

C3_Witness ==
    /\ pc = "Responded"
    /\ Len(texts) = 2 * MODEL_BATCH_SIZE + 1
    /\ ClaimPassthrough(texts[1])
    /\ Len(calls) = 2
    /\ calls[1].outcome = "raise"
    /\ calls[2].outcome = "short"

\* C4: when the engine fails for a chunk, the texts of that chunk come back
\* as their own chunk input, every text of every other chunk gets the
\* translation the engine returned for it, and the request is not aborted.
C4_ChunkFallback ==
    (Completed /\ \E c \in 1..Len(calls) : Failed(calls[c])) =>
        /\ Len(calls) = CeilDiv(Len(filtered_texts), MODEL_BATCH_SIZE)
        /\ ~ response.error
        /\ \A c \in 1..Len(calls) :
             \A j \in 1..Len(calls[c].input) :
                LET orig == text_indices[(c - 1) * MODEL_BATCH_SIZE + j] + 1
                IN  IF Failed(calls[c])
                    THEN batch_results[orig] = calls[c].input[j]
                    ELSE j <= Len(calls[c].results) =>
                            batch_results[orig] =
                                Translate(Strip(texts[orig]), tgt_lang)

C4_Witness ==
    /\ pc = "Responded"
    /\ Len(calls) = 2
    /\ calls[1].outcome = "timeout"
    /\ calls[2].outcome = "ok"
    /\ response.translations[text_indices[1] + 1] = filtered_texts[1]
    /\ response.translations[text_indices[MODEL_BATCH_SIZE + 1] + 1]
           # filtered_texts[MODEL_BATCH_SIZE + 1]

\* C5: with a target language that is neither a canonical tag nor a short
\* code the request goes from Received to Responded with nothing filtered
\* and no engine call, and the response is the request's texts, no error.
C5_UnresolvedPassthrough ==
    Unresolved =>
        /\ pc \in {"Received", "Responded"}
        /\ calls = <<>>
        /\ filtered_texts = <<>>
        /\ text_indices = <<>>
        /\ pc = "Responded" =>
              /\ response.translations = texts
              /\ ~ response.error
              /\ fault = "none"

C5_Witness ==
    /\ Unresolved
    /\ target_language = "hin_deva"
    /\ pc = "Responded"
    /\ \E k \in 1..Len(texts) :
          ClaimTranslatable(texts[k]) /\ LeadingWs(texts[k]) > 0

\* C6: when every chunk invocation fails, the response equals the request's
\* texts, whitespace included.
C6_EngineUnavailableEqualsInput ==
    ( /\ pc = "Responded"
      /\ calls # <<>>
      /\ \A c \in 1..Len(calls) : Failed(calls[c]) )
        => response.translations = texts

\* C7 as stated: an unexpected error while filtering gives the original
\* texts with the error field populated, as a success response.
C7_PipelineFailureErrorField ==
    (pc = "Responded" /\ fault = "filter") =>
        /\ response.translations = texts
        /\ response.error
        /\ response.status = 200

\* C7 amended: an unexpected error while filtering gives the original texts
\* in a success response without an error field, and no engine call.
C7_PipelineFailureSwallowed ==
    (pc = "Responded" /\ fault = "filter") =>
        /\ response.translations = texts
        /\ ~ response.error
        /\ response.status = 200
        /\ calls = <<>>

C7_Witness ==
    /\ pc = "Responded"
    /\ fault = "filter"
    /\ \E k \in 1..Len(texts) :
          ClaimTranslatable(texts[k]) /\ LeadingWs(texts[k]) > 0

\* C8: N filtered texts are handed to the engine in exactly ceil(N/B)
\* consecutive chunks of 1..B texts, in list order, and the concatenated
\* chunk outputs have length N with the output of filtered text j at j.
C8_Batching ==
    LET N == Len(filtered_texts)
        B == MODEL_BATCH_SIZE
    IN  /\ pc \in {"Filtered", "Translating"} => Len(calls) < CeilDiv(N, B)
        /\ pc \in {"Batched", "Assembled", "Responded"} =>
              /\ Len(calls) = CeilDiv(N, B)
              /\ Len(all_translations) = N
        /\ \A c \in 1..Len(calls) :
              /\ Len(calls[c].input) \in 1..B
              /\ calls[c].input = SubSeq(filtered_texts, (c - 1) * B + 1,
                                         IF c * B < N THEN c * B ELSE N)
        /\ \A j \in 1..Len(all_translations) :
              /\ ChunkOf(j) \in DOMAIN calls
              /\ PosInChunk(j) \in DOMAIN calls[ChunkOf(j)].input
              /\ calls[ChunkOf(j)].input[PosInChunk(j)] = filtered_texts[j]
              /\ all_translations[j] = ExpectedAt(calls[ChunkOf(j)], PosInChunk(j))

C8_Witness ==
    /\ pc = "Batched"
    /\ Len(filtered_texts) = 2 * MODEL_BATCH_SIZE + 1
    /\ Len(calls) = 3
    /\ Len(calls[3].input) = 1
    /\ calls[2].outcome = "empty"

\* C9: a text is sent to the engine iff its trimmed form has a length in
\* 1..1000 and contains an alphabetic character; "12345" and a text of
\* trimmed length 1001 are passed through, "A" is translated, and texts
\* with the same trimmed form get the same decision.
C9_FilterPolicy ==
    (pc \in {"Filtered", "Translating", "Batched", "Assembled"} \/ Completed) =>
        LET sent == { text_indices[m] + 1 : m \in 1..Len(text_indices) }
        IN  /\ \A k \in 1..Len(texts) : k \in sent <=> ClaimTranslatable(texts[k])
            /\ \A m \in 1..Len(text_indices) :
                  /\ filtered_texts[m] = Strip(texts[text_indices[m] + 1])
                  /\ m > 1 => text_indices[m - 1] < text_indices[m]
            /\ \A k \in 1..Len(texts) :
                  /\ texts[k] = Digits => k \notin sent
                  /\ TrimmedLen(texts[k]) >= 1001 => k \notin sent
                  /\ texts[k] = Word(1) => k \in sent
            /\ \A j, k \in 1..Len(texts) :
                  Strip(texts[j]) = Strip(texts[k]) => (j \in sent <=> k \in sent)
            /\ Completed =>
                  \A k \in 1..Len(texts) :
                     k \in sent <=>
                        \E c \in 1..Len(calls) : \E j \in 1..Len(calls[c].input) :
                           text_indices[(c - 1) * MODEL_BATCH_SIZE + j] + 1 = k

C9_Witness ==
    /\ pc = "Assembled"
    /\ texts = << PaddedLongest, Word(MaxTextLength + 1) >>
    /\ text_indices = << 0 >>

\* C10: a canonical tag resolves to itself, a short code to the tag of the
\* table, anything else is unresolved; every resolved tag, and every target
\* tag given to the engine, is one of the canonical tags.
C10_Resolution ==
    /\ pc # "Received" =>
          /\ target_language \in valid_target_langs => tgt_lang = target_language
          /\ ( /\ target_language \notin valid_target_langs
               /\ target_language \in DOMAIN tgt_lang_map )
                 => tgt_lang = tgt_lang_map[target_language]
          /\ Unresolved => tgt_lang = None
          /\ tgt_lang # None => tgt_lang \in valid_target_langs
    /\ \A c \in 1..Len(calls) : calls[c].tgt \in valid_target_langs

C10_Witness ==
    /\ target_language = "ks"
    /\ tgt_lang = "kas_Arab"
    /\ calls # <<>>
    /\ calls[1].tgt = "kas_Arab"

\* the entries chunk c contributed to all_translations
ChunkOutput(c) ==
    SubSeq(all_translations, (c - 1) * MODEL_BATCH_SIZE + 1,
           (c - 1) * MODEL_BATCH_SIZE + Len(calls[c].input))

\* A timeout of GPU_TIMEOUT seconds is set afresh for every engine call and
\* cancelled when the call ends; a call still running at the ceiling ends
\* in the fallback to its own input, a call within the ceiling is never
\* timed out, and the loop goes on to the remaining chunks.
TimeoutArmedPerChunk ==
    /\ pc = "Translating" => alarm = GPU_TIMEOUT
    /\ pc # "Translating" => alarm = 0
    /\ \A c \in 1..Len(calls) :
          /\ calls[c].armed = GPU_TIMEOUT
          /\ calls[c].exceeded =>
                /\ calls[c].outcome \in {"timeout", "escape"}
                /\ ChunkOutput(c) = calls[c].input
          /\ ~ calls[c].exceeded => calls[c].outcome \notin {"timeout", "escape"}
    /\ pc \in {"Batched", "Assembled", "Responded"} =>
          Len(calls) = CeilDiv(Len(filtered_texts), MODEL_BATCH_SIZE)

\* C11 as stated: the timeout is armed for every chunk, a call that exceeds
\* the ceiling falls back to identity for that chunk alone, and the loop
\* goes on to the next chunk with a fresh timeout, so that the request
\* eventually reaches Responded.
C11_TimeoutPerChunk ==
    /\ []TimeoutArmedPerChunk
    /\ <>(pc = "Responded")

\* C11 amended: on every platform but Windows the timeout is armed per
\* chunk, a call that exceeds it falls back to identity for that chunk
\* alone, the next chunk gets a fresh timeout and the request reaches
\* Responded; on Windows no timeout is ever armed.
C11_TimeoutPerChunkUnlessWindows ==
    /\ [](system # "Windows" => TimeoutArmedPerChunk)
    /\ [](system = "Windows" => alarm = 0)
    /\ (system # "Windows") ~> (pc = "Responded")

C11_Witness ==
    /\ system = "Linux"
    /\ pc = "Responded"
    /\ Len(calls) = 3
    /\ calls[1].exceeded /\ calls[1].outcome = "timeout"
    /\ calls[2].armed = GPU_TIMEOUT /\ calls[2].outcome = "ok"
    /\ calls[3].exceeded /\ calls[3].outcome = "timeout"
    /\ response.translations[text_indices[1] + 1] = filtered_texts[1]
    /\ response.translations[text_indices[MODEL_BATCH_SIZE + 1] + 1]
           = Translate(filtered_texts[MODEL_BATCH_SIZE + 1], tgt_lang)

\* C12: a result of the wrong length is repaired, not discarded: a longer
\* one is cut to the chunk's length, a shorter one keeps every returned
\* entry in place and gets the chunk's own input text j at each missing
\* position j; every chunk output has the chunk's length, so the
\* concatenation has the length of filtered_texts.
C12_LengthRepair ==
    /\ \A c \in 1..Len(calls) :
          LET call == calls[c]
              out == ChunkOutput(c)
          IN  /\ Len(out) = Len(call.input)
              /\ (c - 1) * MODEL_BATCH_SIZE + Len(call.input)
                     <= Len(all_translations)
              /\ call.outcome \in {"ok", "short", "empty", "long"} =>
                    \A j \in 1..Len(call.input) :
                       out[j] = IF j <= Len(call.results)
                                THEN call.results[j]
                                ELSE call.input[j]
    /\ pc \in {"Batched", "Assembled"} =>
          Len(all_translations) = Len(filtered_texts)

C12_Witness ==
    /\ pc = "Batched"
    /\ Len(calls) = 2
    /\ calls[1].outcome = "short"
    /\ Len(calls[1].results) = MODEL_BATCH_SIZE - 1
    /\ all_translations[MODEL_BATCH_SIZE] = filtered_texts[MODEL_BATCH_SIZE]
    /\ all_translations[1] # filtered_texts[1]
    /\ calls[2].outcome = "long"
    /\ Len(calls[2].results) = Len(calls[2].input) + 1

====
